---- MODULE Spec2Model ----
(***************************************************************************)
(* SMSService (modules/base/common/service_sms.go): issuing and verifying  *)
(* SMS verification codes against a shared Redis store.                    *)
(*                                                                         *)
(* Strings are sequences of characters (a literal prefix is one element),  *)
(* "" is <<>>.  Time is counted in minutes: Tick is the passing of one      *)
(* minute, and every Redis key carries the minutes it has left to live.    *)
(* Each worker runs one call                                               *)
(* at a time; a call is cut at its Redis operations, so that an action is  *)
(* one Redis operation together with the local computation that follows it *)
(* up to the next Redis operation or the return.                           *)
(***************************************************************************)
EXTENDS Integers, Sequences, FiniteSets, TLC

\* ------------------------------------------------------------------ bounds
NumPhones == 1
NumTypes == 2
NumCodes == 2
NumProcs == 2
MaxCalls == 3
MaxSeqCalls == 5
MaxRaceCalls == 4
MaxErrCalls == 4
MaxPairCalls == 2
MaxOtherCalls == 1
MaxLateCalls == 4

\* ------------------------------------------------------- program constants
RateLimitMinutes == 1
CodeMinutes == 5
LockMinutes == 10
FailMinutes == 10
LockThreshold == 3
CodeLength == 4

\* ------------------------------------------------------------------ strings
Digits == <<"0", "1", "2", "3", "4", "5", "6", "7", "8", "9">>

EmptyString == <<>>

\* fmt.Sprintf("%d", n) for n >= 0
RECURSIVE Itoa(_)
Itoa(n) == IF n < 10 THEN <<Digits[n + 1]>>
           ELSE Itoa(n \div 10) \o <<Digits[(n % 10) + 1]>>

IsDigit(c) == \E i \in 1..10 : Digits[i] = c

DigitValue(c) == CHOOSE i \in 0..9 : Digits[i + 1] = c

\* strconv.Atoi on an unsigned decimal string: [ok, n]; ok is FALSE for ""
\* and for a string with a character that is no digit
RECURSIVE AtoiValue(_)
AtoiValue(s) == IF Len(s) = 0 THEN 0
                ELSE AtoiValue(SubSeq(s, 1, Len(s) - 1)) * 10 + DigitValue(s[Len(s)])

Atoi(s) == IF Len(s) > 0 /\ \A i \in 1..Len(s) : IsDigit(s[i])
           THEN [ok |-> TRUE, n |-> AtoiValue(s)]
           ELSE [ok |-> FALSE, n |-> 0]

\* subtle.ConstantTimeCompare: 1 when the two byte strings have the same
\* length and the same bytes, 0 otherwise
ConstantTimeCompare(x, y) ==
    IF Len(x) # Len(y) THEN 0
    ELSE IF \A i \in 1..Len(x) : x[i] = y[i] THEN 1 ELSE 0

\* ------------------------------------------------------------------- inputs
Procs == 1..NumProcs

Zones == {<<"0", "0", "8", "6">>, <<"0", "0", "0", "1">>}

Phones == {<<Digits[k + 1]>> : k \in 1..NumPhones}

CodeTypes == 0..(NumTypes - 1)

\* the decimal string of n, padded with zeros on the left to the given length
RECURSIVE ZeroPad(_, _)
ZeroPad(s, length) == IF Len(s) >= length THEN s ELSE ZeroPad(<<"0">> \o s, length)

\* generateSecureVerifyCode(length): the strings it can return, with the
\* random source bounded to NumCodes outcomes
generateSecureVerifyCode(length) == {ZeroPad(Itoa(k), length) : k \in 0..(NumCodes - 1)}

\* the codes a caller presents to Verify: every code that can be issued, and ""
PresentedCodes == generateSecureVerifyCode(CodeLength) \cup {EmptyString}

\* --------------------------------------------------------------- Redis keys
CacheKeySMSCode == <<"CacheKeySMSCode">>

rateLimitKey(zone, phone) ==
    <<"sms_rate_limit:">> \o zone \o <<"@">> \o phone

cacheKey(codeType, zone, phone) ==
    CacheKeySMSCode \o Itoa(codeType) \o <<"@">> \o zone \o <<"@">> \o phone

failCountKey(zone, phone) ==
    <<"sms_verify_fail:">> \o zone \o <<"@">> \o phone

lockKey(zone, phone) ==
    <<"sms_verify_lock:">> \o zone \o <<"@">> \o phone

Keys == {rateLimitKey(z, ph) : z \in Zones, ph \in Phones}
        \cup {cacheKey(t, z, ph) : t \in CodeTypes, z \in Zones, ph \in Phones}
        \cup {failCountKey(z, ph) : z \in Zones, ph \in Phones}
        \cup {lockKey(z, ph) : z \in Zones, ph \in Phones}

\* -------------------------------------------------------------------- state
VARIABLES
    redis,      \* the Redis store: key -> [val, ttl]; ttl = 0 is an absent key
    config,     \* s.ctx.GetConfig(): [SMSProvider, AccessKeyID]
    pc,         \* worker -> the Redis operation its call performs next, or "idle"
    frame,      \* worker -> the arguments and local variables of its call
    budget,     \* identity -> the number of calls its callers still make
    schedule,   \* how calls and time interleave: "concurrent" (calls overlap and
                \* take any time), "stalled" (calls overlap, a minute passes
                \* during a call only while it waits to write the failure
                \* count), "instant" (calls overlap, no minute passes during a
                \* call) or "sequential" (one call at a time, no minute passes
                \* during it)
    returned,   \* the call that returned in the last step, with its error, or NoCall
    tracker,    \* history: identity -> the failed Verify calls in a row, and the
                \* minutes since the last of them
    accepted,   \* history: code key -> the Verify calls that found the stored
                \* code equal to theirs since it was stored
    passed,     \* history: identity -> the SendVerifyCode calls that got past
                \* the rate limit in the current minute
    verified    \* history: identity -> the purpose and code of its last call
                \* that returned, when that was a Verify returning nil

vars == <<redis, config, pc, frame, budget, schedule, returned, tracker, accepted, passed,
          verified>>

Ids == Zones \X Phones

CodeKeys == {cacheKey(t, z, ph) : t \in CodeTypes, z \in Zones, ph \in Phones}

Absent == [val |-> EmptyString, ttl |-> 0]

\* the value a key holds, "" when the key is absent
GetString(key) == redis[key].val

SetAndExpire(store, key, value, minutes) ==
    [store EXCEPT ![key] = [val |-> value, ttl |-> minutes]]

Del(store, key) == [store EXCEPT ![key] = Absent]

\* the configurations the service is started with
Configured == [SMSProvider |-> "aliyun", AccessKeyID |-> "ak"]

Configs == {Configured, [SMSProvider |-> "", AccessKeyID |-> ""]}

\* the switch on the configured provider name; "nil" when no case matches
NewSMSProvider(cfg, zone) ==
    CASE cfg.SMSProvider = "aliyun" ->
             IF zone # <<"0", "0", "8", "6">> /\ cfg.AccessKeyID # ""
             THEN "AliyunInternationalProvider" ELSE "AliyunProvider"
      [] cfg.SMSProvider = "unisms" -> "UnismsProvider"
      [] cfg.SMSProvider = "smsbao" -> "SmsbaoProvider"
      [] OTHER -> "nil"

\* the errors the two methods return; NoError is nil
NoError == "nil"
ErrRateLimited == "send too frequent, retry in 1 minute"
ErrNoProvider == "no sms provider found"
ErrSystem == "system error, retry later"
ErrStore == "redis error"
ErrDelivery == "SendSMS error"
ErrLocked == "too many failures, retry in 10 minutes"
ErrLockedNow == "too many failures, locked for 10 minutes"
ErrInvalidCode == "verify code invalid"

\* the spec's TooManyAttempts: locked already, or locked by this call
TooManyAttempts == {ErrLocked, ErrLockedNow}

\* storeFailed is history: a Redis operation of the call has failed
IdleFrame == [zone |-> EmptyString, phone |-> EmptyString, codeType |-> 0,
              code |-> EmptyString, verifyCode |-> EmptyString, failCount |-> 0,
              storeFailed |-> FALSE]

NotVerified == [codeType |-> 0, code |-> EmptyString]

\* after is history: what verified held for the identity when the call returned
NoCall == [op |-> "none", zone |-> EmptyString, phone |-> EmptyString,
           codeType |-> 0, code |-> EmptyString, err |-> NoError,
           storeFailed |-> FALSE, after |-> NotVerified]

NewFrame(zone, phone, codeType, code, verifyCode) ==
    [IdleFrame EXCEPT !.zone = zone, !.phone = phone, !.codeType = codeType,
                      !.code = code, !.verifyCode = verifyCode]

NoFailures == [n |-> 0, quiet |-> 0]

\* the identity whose callers the specifications follow
MainId == <<<<"0", "0", "8", "6">>, <<"1">>>>

InitStore ==
    /\ redis = [k \in Keys |-> Absent]
    /\ pc = [p \in Procs |-> "idle"]
    /\ frame = [p \in Procs |-> IdleFrame]
    /\ returned = NoCall
    /\ tracker = [i \in Ids |-> NoFailures]
    /\ accepted = [k \in CodeKeys |-> 0]
    /\ passed = [i \in Ids |-> 0]
    /\ verified = [i \in Ids |-> NotVerified]

\* a provider is configured, and the callers of one identity make MaxCalls calls
Init ==
    /\ InitStore
    /\ config = Configured
    /\ schedule = "concurrent"
    /\ budget = [i \in Ids |-> IF i = MainId THEN MaxCalls ELSE 0]

\* a call for the identity is taken by the idle worker of the least number
\* (idle workers do not differ), while the identity's callers have calls left
AllIdle == \A q \in Procs : pc[q] = "idle"

CanCall(p, zone, phone) ==
    /\ pc[p] = "idle"
    /\ \A q \in Procs : q < p => pc[q] # "idle"
    /\ schedule = "sequential" => AllIdle
    /\ budget[<<zone, phone>>] > 0

Called(zone, phone) ==
    /\ budget' = [budget EXCEPT ![<<zone, phone>>] = @ - 1]
    /\ UNCHANGED schedule

\* history: the failed Verify calls in a row after one more call has returned
\* err: none after a success, one more after a failure until there are
\* LockThreshold of them
AfterVerify(t, err) ==
    IF err = NoError THEN NoFailures
    ELSE IF err # ErrStore /\ t.n < LockThreshold THEN [n |-> t.n + 1, quiet |-> 0]
    ELSE t

\* history: a minute passes; failures 10 minutes old are forgotten
AfterMinute(t) ==
    IF t.n = 0 \/ t.quiet + 1 >= FailMinutes THEN NoFailures
    ELSE [t EXCEPT !.quiet = t.quiet + 1]

\* the call of worker p returns err to its caller
Return(p, op, zone, phone, codeType, code, err, storeFailed) ==
    /\ pc' = [pc EXCEPT ![p] = "idle"]
    /\ frame' = [frame EXCEPT ![p] = IdleFrame]
    /\ returned' = [op |-> op, zone |-> zone, phone |-> phone,
                    codeType |-> codeType, code |-> code, err |-> err,
                    storeFailed |-> storeFailed, after |-> verified[<<zone, phone>>]]
    /\ tracker' = IF op = "verify"
                  THEN [tracker EXCEPT ![<<zone, phone>>] = AfterVerify(@, err)]
                  ELSE tracker
    /\ verified' = [verified EXCEPT ![<<zone, phone>>] =
                        IF op = "verify" /\ err = NoError
                        THEN [codeType |-> codeType, code |-> code]
                        ELSE NotVerified]

\* the call of worker p returns err from the Redis operation at its label
ReturnFrom(p, op, err) ==
    Return(p, op, frame[p].zone, frame[p].phone, frame[p].codeType, frame[p].code,
           err, frame[p].storeFailed)

\* the call of worker p goes on to the Redis operation at label next
Goto(p, next, newFrame) ==
    /\ pc' = [pc EXCEPT ![p] = next]
    /\ frame' = [frame EXCEPT ![p] = newFrame]
    /\ returned' = NoCall
    /\ UNCHANGED <<tracker, verified>>

\* ----------------------------------------------------------- SendVerifyCode
\* RateLimited reading the lock key in place of the rate-limit key
RateLimitedWrongKey(zone, phone) == GetString(lockKey(zone, phone)) # EmptyString

\* RateLimited looking for a mark on the phone number in every zone
RateLimitedAnyZone(zone, phone) ==
    \E z \in Zones : GetString(rateLimitKey(z, phone)) # EmptyString

\* lines 47-55: the rate-limit key of the identity holds a value
RateLimited(zone, phone) == GetString(rateLimitKey(zone, phone)) # EmptyString

\* SendVerifyCode setting the rate-limit key before it looks for a provider
SendVerifyCodeMarkFirst(p, zone, phone, codeType) ==
    /\ CanCall(p, zone, phone)
    /\ Called(zone, phone)
    /\ UNCHANGED <<config, accepted>>
    /\ IF RateLimited(zone, phone)
       THEN /\ Return(p, "send", zone, phone, codeType, EmptyString,
                      ErrRateLimited, FALSE)
            /\ UNCHANGED <<redis, passed>>
       ELSE IF NewSMSProvider(config, zone) = "nil"
       THEN /\ redis' = SetAndExpire(redis, rateLimitKey(zone, phone), <<"1">>,
                                     RateLimitMinutes)
            /\ Return(p, "send", zone, phone, codeType, EmptyString,
                      ErrNoProvider, FALSE)
            /\ UNCHANGED passed
       ELSE /\ \E verifyCode \in generateSecureVerifyCode(CodeLength) :
                   Goto(p, "send_set_code",
                        NewFrame(zone, phone, codeType, EmptyString, verifyCode))
            /\ passed' = [passed EXCEPT ![<<zone, phone>>] = @ + 1]
            /\ UNCHANGED redis

\* lines 45-86: the read of the rate-limit key, the choice of the provider
\* and the generation of the code
SendVerifyCode(p, zone, phone, codeType) ==
    /\ CanCall(p, zone, phone)
    /\ Called(zone, phone)
    /\ UNCHANGED <<redis, config, accepted>>
    /\ IF RateLimited(zone, phone)
       THEN /\ Return(p, "send", zone, phone, codeType, EmptyString,
                      ErrRateLimited, FALSE)
            /\ UNCHANGED passed
       ELSE IF NewSMSProvider(config, zone) = "nil"
       THEN /\ Return(p, "send", zone, phone, codeType, EmptyString,
                      ErrNoProvider, FALSE)
            /\ UNCHANGED passed
       ELSE /\ \E verifyCode \in generateSecureVerifyCode(CodeLength) :
                   Goto(p, "send_set_code",
                        NewFrame(zone, phone, codeType, EmptyString, verifyCode))
            /\ passed' = [passed EXCEPT ![<<zone, phone>>] = @ + 1]

\* SendSetCode deleting the failure count and the lock of the identity as it
\* stores the new code
SendSetCodeResets(p) ==
    /\ pc[p] = "send_set_code"
    /\ LET key == cacheKey(frame[p].codeType, frame[p].zone, frame[p].phone) IN
       /\ redis' = Del(Del(SetAndExpire(redis, key, frame[p].verifyCode, CodeMinutes),
                           failCountKey(frame[p].zone, frame[p].phone)),
                       lockKey(frame[p].zone, frame[p].phone))
       /\ accepted' = [accepted EXCEPT ![key] = 0]
    /\ Goto(p, "send_set_rate", frame[p])
    /\ UNCHANGED <<config, schedule, budget, passed>>

\* lines 87-91: the code is stored for 5 minutes
SendSetCode(p) ==
    /\ pc[p] = "send_set_code"
    /\ LET key == cacheKey(frame[p].codeType, frame[p].zone, frame[p].phone) IN
       /\ redis' = SetAndExpire(redis, key, frame[p].verifyCode, CodeMinutes)
       /\ accepted' = [accepted EXCEPT ![key] = 0]
    /\ Goto(p, "send_set_rate", frame[p])
    /\ UNCHANGED <<config, schedule, budget, passed>>

\* lines 93-97: the rate-limit key is set for 1 minute
SendSetRate(p) ==
    /\ pc[p] = "send_set_rate"
    /\ redis' = SetAndExpire(redis, rateLimitKey(frame[p].zone, frame[p].phone),
                             <<"1">>, RateLimitMinutes)
    /\ Goto(p, "send_sms", frame[p])
    /\ UNCHANGED <<config, schedule, budget, accepted, passed>>

\* SendSMS deleting the code and the rate-limit key when the provider fails
SendSMSRollsBack(p) ==
    /\ pc[p] = "send_sms"
    /\ \E err \in {NoError, ErrDelivery} :
          /\ ReturnFrom(p, "send", err)
          /\ redis' = IF err = NoError THEN redis
                       ELSE Del(Del(redis, cacheKey(frame[p].codeType, frame[p].zone,
                                                    frame[p].phone)),
                                rateLimitKey(frame[p].zone, frame[p].phone))
    /\ UNCHANGED <<config, schedule, budget, accepted, passed>>

\* lines 99-100: the provider sends the code, and its error is returned
SendSMS(p) ==
    /\ pc[p] = "send_sms"
    /\ \E err \in {NoError, ErrDelivery} : ReturnFrom(p, "send", err)
    /\ UNCHANGED <<redis, config, schedule, budget, accepted, passed>>

\* ------------------------------------------------------------------- Verify
\* Verify setting the lock anew for 10 minutes when it finds it
VerifyLockedExtends(p, zone, phone, code, codeType) ==
    /\ CanCall(p, zone, phone)
    /\ Called(zone, phone)
    /\ UNCHANGED <<config, accepted, passed>>
    /\ LET locked == GetString(lockKey(zone, phone)) IN
       IF locked # EmptyString
       THEN /\ redis' = SetAndExpire(redis, lockKey(zone, phone), <<"1">>, LockMinutes)
            /\ Return(p, "verify", zone, phone, codeType, code, ErrLocked, FALSE)
       ELSE /\ UNCHANGED redis
            /\ Goto(p, "verify_get_code",
                    NewFrame(zone, phone, codeType, code, EmptyString))

\* lines 118-130: the read of the lock key
Verify(p, zone, phone, code, codeType) ==
    /\ CanCall(p, zone, phone)
    /\ Called(zone, phone)
    /\ UNCHANGED <<redis, config, accepted, passed>>
    /\ LET locked == GetString(lockKey(zone, phone)) IN
       IF locked # EmptyString
       THEN Return(p, "verify", zone, phone, codeType, code, ErrLocked, FALSE)
       ELSE Goto(p, "verify_get_code",
                 NewFrame(zone, phone, codeType, code, EmptyString))

\* line 137: the stored code is present and equals the presented code
CodeMatches(sysCode, code) ==
    sysCode # EmptyString /\ ConstantTimeCompare(sysCode, code) = 1

\* VerifyGetCode returning at once, without counting a failure, when no code
\* is stored
VerifyGetCodeEarlyReturn(p) ==
    /\ pc[p] = "verify_get_code"
    /\ LET key == cacheKey(frame[p].codeType, frame[p].zone, frame[p].phone)
           sysCode == GetString(key)
       IN  IF sysCode = EmptyString
           THEN /\ ReturnFrom(p, "verify", ErrInvalidCode)
                /\ UNCHANGED accepted
           ELSE IF CodeMatches(sysCode, frame[p].code)
           THEN /\ Goto(p, "verify_del_code", frame[p])
                /\ accepted' = [accepted EXCEPT ![key] = @ + 1]
           ELSE /\ Goto(p, "verify_get_fail", frame[p])
                /\ UNCHANGED accepted
    /\ UNCHANGED <<redis, config, schedule, budget, passed>>

\* VerifyGetCode comparing with the codes stored for every purpose of the
\* identity
VerifyGetCodeAnyPurpose(p) ==
    /\ pc[p] = "verify_get_code"
    /\ LET key == cacheKey(frame[p].codeType, frame[p].zone, frame[p].phone)
       IN  IF \E t \in CodeTypes :
                 CodeMatches(GetString(cacheKey(t, frame[p].zone, frame[p].phone)),
                             frame[p].code)
           THEN /\ Goto(p, "verify_del_code", frame[p])
                /\ accepted' = [accepted EXCEPT ![key] = @ + 1]
           ELSE /\ Goto(p, "verify_get_fail", frame[p])
                /\ UNCHANGED accepted
    /\ UNCHANGED <<redis, config, schedule, budget, passed>>

\* lines 132-137: the read of the stored code and its comparison
VerifyGetCode(p) ==
    /\ pc[p] = "verify_get_code"
    /\ LET key == cacheKey(frame[p].codeType, frame[p].zone, frame[p].phone)
           sysCode == GetString(key)
       IN  IF CodeMatches(sysCode, frame[p].code)
           THEN /\ Goto(p, "verify_del_code", frame[p])
                /\ accepted' = [accepted EXCEPT ![key] = @ + 1]
           ELSE /\ Goto(p, "verify_get_fail", frame[p])
                /\ UNCHANGED accepted
    /\ UNCHANGED <<redis, config, schedule, budget, passed>>

\* VerifyDelCode without the Del of line 138
VerifyDelCodeKeeps(p) ==
    /\ pc[p] = "verify_del_code"
    /\ Goto(p, "verify_del_fail", frame[p])
    /\ UNCHANGED <<redis, config, schedule, budget, accepted, passed>>

\* line 138: the stored code is deleted
VerifyDelCode(p) ==
    /\ pc[p] = "verify_del_code"
    /\ LET key == cacheKey(frame[p].codeType, frame[p].zone, frame[p].phone) IN
       /\ redis' = Del(redis, key)
       /\ accepted' = [accepted EXCEPT ![key] = 0]
    /\ Goto(p, "verify_del_fail", frame[p])
    /\ UNCHANGED <<config, schedule, budget, passed>>

\* VerifyDelFail without the Del of line 141
VerifyDelFailKeeps(p) ==
    /\ pc[p] = "verify_del_fail"
    /\ Goto(p, "verify_del_lock", frame[p])
    /\ UNCHANGED <<redis, config, schedule, budget, accepted, passed>>

\* lines 139-141: the failure count is deleted
VerifyDelFail(p) ==
    /\ pc[p] = "verify_del_fail"
    /\ redis' = Del(redis, failCountKey(frame[p].zone, frame[p].phone))
    /\ Goto(p, "verify_del_lock", frame[p])
    /\ UNCHANGED <<config, schedule, budget, accepted, passed>>

\* lines 142-143: the lock is deleted, and the call returns nil
VerifyDelLock(p) ==
    /\ pc[p] = "verify_del_lock"
    /\ redis' = Del(redis, lockKey(frame[p].zone, frame[p].phone))
    /\ ReturnFrom(p, "verify", NoError)
    /\ UNCHANGED <<config, schedule, budget, accepted, passed>>

\* NextFailCount without the increment of line 155
NextFailCountNoIncrement(failCountStr) ==
    LET parsed == Atoi(failCountStr)
    IN  IF failCountStr # EmptyString /\ parsed.ok THEN parsed.n ELSE 0

\* lines 149-155: the count read from the string stored (0 when there is none
\* or it is no number), plus one
NextFailCount(failCountStr) ==
    LET parsed == Atoi(failCountStr)
        failCount == IF failCountStr # EmptyString /\ parsed.ok THEN parsed.n ELSE 0
    IN  failCount + 1

\* lines 146-157: the read of the failure count and its increment
VerifyGetFail(p) ==
    /\ pc[p] = "verify_get_fail"
    /\ LET failCountStr == GetString(failCountKey(frame[p].zone, frame[p].phone))
           failCount == NextFailCount(failCountStr)
       IN  IF failCount >= LockThreshold
           THEN Goto(p, "verify_set_lock", [frame[p] EXCEPT !.failCount = failCount])
           ELSE Goto(p, "verify_set_fail", [frame[p] EXCEPT !.failCount = failCount])
    /\ UNCHANGED <<redis, config, schedule, budget, accepted, passed>>

\* VerifySetLock storing the count it reached as well, as line 164 does
\* under the threshold
VerifySetLockCounts(p) ==
    /\ pc[p] = "verify_set_lock"
    /\ redis' = SetAndExpire(SetAndExpire(redis,
                                          failCountKey(frame[p].zone, frame[p].phone),
                                          Itoa(frame[p].failCount), FailMinutes),
                             lockKey(frame[p].zone, frame[p].phone),
                             <<"1">>, LockMinutes)
    /\ ReturnFrom(p, "verify", ErrLockedNow)
    /\ UNCHANGED <<config, schedule, budget, accepted, passed>>

\* VerifySetLock with the Del of line 160, which the source has commented out
VerifySetLockDelsCount(p) ==
    /\ pc[p] = "verify_set_lock"
    /\ redis' = Del(SetAndExpire(redis, lockKey(frame[p].zone, frame[p].phone),
                                 <<"1">>, LockMinutes),
                    failCountKey(frame[p].zone, frame[p].phone))
    /\ ReturnFrom(p, "verify", ErrLockedNow)
    /\ UNCHANGED <<config, schedule, budget, accepted, passed>>

\* lines 157-161: the lock is set for 10 minutes
VerifySetLock(p) ==
    /\ pc[p] = "verify_set_lock"
    /\ redis' = SetAndExpire(redis, lockKey(frame[p].zone, frame[p].phone),
                             <<"1">>, LockMinutes)
    /\ ReturnFrom(p, "verify", ErrLockedNow)
    /\ UNCHANGED <<config, schedule, budget, accepted, passed>>

\* VerifySetFail leaving a count that is present the time to live it has
VerifySetFailKeepsExpiry(p) ==
    /\ pc[p] = "verify_set_fail"
    /\ LET key == failCountKey(frame[p].zone, frame[p].phone) IN
       redis' = SetAndExpire(redis, key, Itoa(frame[p].failCount),
                             IF redis[key].ttl > 0 THEN redis[key].ttl ELSE FailMinutes)
    /\ ReturnFrom(p, "verify", ErrInvalidCode)
    /\ UNCHANGED <<config, schedule, budget, accepted, passed>>

\* lines 162-168: the failure count is stored for 10 minutes
VerifySetFail(p) ==
    /\ pc[p] = "verify_set_fail"
    /\ redis' = SetAndExpire(redis, failCountKey(frame[p].zone, frame[p].phone),
                             Itoa(frame[p].failCount), FailMinutes)
    /\ ReturnFrom(p, "verify", ErrInvalidCode)
    /\ UNCHANGED <<config, schedule, budget, accepted, passed>>

\* ------------------------------------------------------------ failing Redis
\* A Redis operation fails: GetString returns "" and an error, SetAndExpire
\* and Del return an error and leave the store as it is.
Failed(p) == [frame[p] EXCEPT !.storeFailed = TRUE]

\* lines 49-52: the read of the rate-limit key fails, the error is returned
SendGetRateFails(p, zone, phone, codeType) ==
    /\ CanCall(p, zone, phone)
    /\ Called(zone, phone)
    /\ Return(p, "send", zone, phone, codeType, EmptyString, ErrStore, TRUE)
    /\ UNCHANGED <<redis, config, accepted, passed>>

\* lines 81-85: the random source fails, a system error is returned
SendGenerateFails(p, zone, phone, codeType) ==
    /\ CanCall(p, zone, phone)
    /\ Called(zone, phone)
    /\ ~RateLimited(zone, phone)
    /\ NewSMSProvider(config, zone) # "nil"
    /\ Return(p, "send", zone, phone, codeType, EmptyString, ErrSystem, FALSE)
    /\ UNCHANGED <<redis, config, accepted, passed>>

\* lines 88-91: the write of the code fails, the error is returned
SendSetCodeFails(p) ==
    /\ pc[p] = "send_set_code"
    /\ Return(p, "send", frame[p].zone, frame[p].phone, frame[p].codeType,
              EmptyString, ErrStore, TRUE)
    /\ UNCHANGED <<redis, config, schedule, budget, accepted, passed>>

\* lines 94-97: the write of the rate-limit key fails, the error is returned
SendSetRateFails(p) ==
    /\ pc[p] = "send_set_rate"
    /\ Return(p, "send", frame[p].zone, frame[p].phone, frame[p].codeType,
              EmptyString, ErrStore, TRUE)
    /\ UNCHANGED <<redis, config, schedule, budget, accepted, passed>>

\* lines 124-127: the read of the lock key fails, the error is returned
VerifyGetLockFails(p, zone, phone, code, codeType) ==
    /\ CanCall(p, zone, phone)
    /\ Called(zone, phone)
    /\ Return(p, "verify", zone, phone, codeType, code, ErrStore, TRUE)
    /\ UNCHANGED <<redis, config, accepted, passed>>

\* lines 133-136: the read of the stored code fails, the error is returned
VerifyGetCodeFails(p) ==
    /\ pc[p] = "verify_get_code"
    /\ Return(p, "verify", frame[p].zone, frame[p].phone, frame[p].codeType,
              frame[p].code, ErrStore, TRUE)
    /\ UNCHANGED <<redis, config, schedule, budget, accepted, passed>>

\* line 138: the delete of the code fails, its error is dropped
VerifyDelCodeFails(p) ==
    /\ pc[p] = "verify_del_code"
    /\ Goto(p, "verify_del_fail", Failed(p))
    /\ UNCHANGED <<redis, config, schedule, budget, accepted, passed>>

\* line 141: the delete of the failure count fails, its error is dropped
VerifyDelFailFails(p) ==
    /\ pc[p] = "verify_del_fail"
    /\ Goto(p, "verify_del_lock", Failed(p))
    /\ UNCHANGED <<redis, config, schedule, budget, accepted, passed>>

\* lines 142-143: the delete of the lock fails, its error is dropped
VerifyDelLockFails(p) ==
    /\ pc[p] = "verify_del_lock"
    /\ Return(p, "verify", frame[p].zone, frame[p].phone, frame[p].codeType,
              frame[p].code, NoError, TRUE)
    /\ UNCHANGED <<redis, config, schedule, budget, accepted, passed>>

\* lines 148-157: the read of the failure count fails, its error is dropped
\* and the count is taken from the "" that was returned
VerifyGetFailFails(p) ==
    /\ pc[p] = "verify_get_fail"
    /\ LET failCount == NextFailCount(EmptyString) IN
       IF failCount >= LockThreshold
       THEN Goto(p, "verify_set_lock", [Failed(p) EXCEPT !.failCount = failCount])
       ELSE Goto(p, "verify_set_fail", [Failed(p) EXCEPT !.failCount = failCount])
    /\ UNCHANGED <<redis, config, schedule, budget, accepted, passed>>

\* lines 159-161: the write of the lock fails, its error is dropped
VerifySetLockFails(p) ==
    /\ pc[p] = "verify_set_lock"
    /\ Return(p, "verify", frame[p].zone, frame[p].phone, frame[p].codeType,
              frame[p].code, ErrLockedNow, TRUE)
    /\ UNCHANGED <<redis, config, schedule, budget, accepted, passed>>

\* lines 164-168: the write of the failure count fails, its error is dropped
VerifySetFailFails(p) ==
    /\ pc[p] = "verify_set_fail"
    /\ Return(p, "verify", frame[p].zone, frame[p].phone, frame[p].codeType,
              frame[p].code, ErrInvalidCode, TRUE)
    /\ UNCHANGED <<redis, config, schedule, budget, accepted, passed>>

\* ---------------------------------------------------------------------- time
\* one minute passes: every key has one minute less to live, and a key with
\* none left is gone
Expire(entry) == IF entry.ttl <= 1 THEN Absent ELSE [entry EXCEPT !.ttl = entry.ttl - 1]

Tick ==
    /\ schedule \in {"instant", "sequential"} => AllIdle
    /\ schedule = "stalled" => \A q \in Procs : pc[q] \in {"idle", "verify_set_fail"}
    /\ redis' = [k \in Keys |-> Expire(redis[k])]
    /\ returned' = NoCall
    /\ tracker' = [i \in Ids |-> AfterMinute(tracker[i])]
    /\ accepted' = [k \in CodeKeys |-> IF redis[k].ttl <= 1 THEN 0 ELSE accepted[k]]
    /\ passed' = [i \in Ids |-> 0]
    /\ UNCHANGED <<config, pc, frame, budget, schedule, verified>>

\* ----------------------------------------------------------- specifications
\* one Redis operation of a call, the start of a call, or a minute passing
Next ==
    \/ \E p \in Procs, zone \in Zones, phone \in Phones, codeType \in CodeTypes :
           SendVerifyCode(p, zone, phone, codeType)
    \/ \E p \in Procs : SendSetCode(p)
    \/ \E p \in Procs : SendSetRate(p)
    \/ \E p \in Procs : SendSMS(p)
    \/ \E p \in Procs, zone \in Zones, phone \in Phones, code \in PresentedCodes,
          codeType \in CodeTypes :
           Verify(p, zone, phone, code, codeType)
    \/ \E p \in Procs : VerifyGetCode(p)
    \/ \E p \in Procs : VerifyDelCode(p)
    \/ \E p \in Procs : VerifyDelFail(p)
    \/ \E p \in Procs : VerifyDelLock(p)
    \/ \E p \in Procs : VerifyGetFail(p)
    \/ \E p \in Procs : VerifySetLock(p)
    \/ \E p \in Procs : VerifySetFail(p)
    \/ Tick

\* the workers run their calls concurrently, and a call may take any time
Spec == Init /\ [][Next]_vars

\* one call at a time, with and without a provider configured
InitSeq ==
    /\ InitStore
    /\ config \in Configs
    /\ schedule = "sequential"
    /\ budget = [i \in Ids |-> IF i = MainId THEN MaxSeqCalls ELSE 0]

SpecSeq == InitSeq /\ [][Next]_vars

\* the workers run their calls concurrently, and no minute passes during a call
InitRace ==
    /\ InitStore
    /\ config = Configured
    /\ schedule = "instant"
    /\ budget = [i \in Ids |-> IF i = MainId THEN MaxRaceCalls ELSE 0]

SpecRace == InitRace /\ [][Next]_vars

\* two Verify calls of one identity have failed a minute ago; its callers
\* make MaxPairCalls more calls and those of every other identity
\* MaxOtherCalls, concurrently, and no minute passes during a call
InitPair ==
    /\ redis = [k \in Keys |->
                   IF k = failCountKey(MainId[1], MainId[2])
                   THEN [val |-> Itoa(2), ttl |-> FailMinutes - 1]
                   ELSE Absent]
    /\ tracker = [i \in Ids |-> IF i = MainId THEN [n |-> 2, quiet |-> 1] ELSE NoFailures]
    /\ pc = [p \in Procs |-> "idle"]
    /\ frame = [p \in Procs |-> IdleFrame]
    /\ returned = NoCall
    /\ accepted = [k \in CodeKeys |-> 0]
    /\ passed = [i \in Ids |-> 0]
    /\ verified = [i \in Ids |-> NotVerified]
    /\ config = Configured
    /\ schedule = "instant"
    /\ budget = [i \in Ids |-> IF i = MainId THEN MaxPairCalls ELSE MaxOtherCalls]

SpecPair == InitPair /\ [][Next]_vars

\* the workers run their calls concurrently, and a call may wait for minutes
\* before it writes the failure count
InitLate ==
    /\ InitStore
    /\ config = Configured
    /\ schedule = "stalled"
    /\ budget = [i \in Ids |-> IF i = MainId THEN MaxLateCalls ELSE 0]

SpecLate == InitLate /\ [][Next]_vars

\* one call at a time, and a Redis operation or the random source may fail
InitErr ==
    /\ InitStore
    /\ config \in Configs
    /\ schedule = "sequential"
    /\ budget = [i \in Ids |-> IF i = MainId THEN MaxErrCalls ELSE 0]

NextErr ==
    \/ Next
    \/ \E p \in Procs, zone \in Zones, phone \in Phones, codeType \in CodeTypes :
           SendGetRateFails(p, zone, phone, codeType)
    \/ \E p \in Procs, zone \in Zones, phone \in Phones, codeType \in CodeTypes :
           SendGenerateFails(p, zone, phone, codeType)
    \/ \E p \in Procs : SendSetCodeFails(p)
    \/ \E p \in Procs : SendSetRateFails(p)
    \/ \E p \in Procs, zone \in Zones, phone \in Phones, code \in PresentedCodes,
          codeType \in CodeTypes :
           VerifyGetLockFails(p, zone, phone, code, codeType)
    \/ \E p \in Procs : VerifyGetCodeFails(p)
    \/ \E p \in Procs : VerifyDelCodeFails(p)
    \/ \E p \in Procs : VerifyDelFailFails(p)
    \/ \E p \in Procs : VerifyDelLockFails(p)
    \/ \E p \in Procs : VerifyGetFailFails(p)
    \/ \E p \in Procs : VerifySetLockFails(p)
    \/ \E p \in Procs : VerifySetFailFails(p)

SpecErr == InitErr /\ [][NextErr]_vars

\* ------------------------------------------------------------------- claims
\* the records of an identity i = <<zone, phone>> in the store
RateMark(i) == redis[rateLimitKey(i[1], i[2])]

LockMark(i) == redis[lockKey(i[1], i[2])]

FailRecord(i) == redis[failCountKey(i[1], i[2])]

IssuedCode(t, i) == redis[cacheKey(t, i[1], i[2])]

Present(entry) == entry.ttl > 0

\* the identity of the call that returned in the last step
ReturnedId == <<returned.zone, returned.phone>>

\* this step starts a SendVerifyCode call for identity i
SendStarts(i) ==
    /\ budget'[i] = budget[i] - 1
    /\ \/ returned'.op = "send"
       \/ \E p \in Procs : pc[p] = "idle" /\ pc'[p] = "send_set_code"

\* this step starts a Verify call for identity i
VerifyStarts(i) ==
    /\ budget'[i] = budget[i] - 1
    /\ \/ returned'.op = "verify"
       \/ \E p \in Procs : pc[p] = "idle" /\ pc'[p] = "verify_get_code"

\* C1: a SendVerifyCode call that starts while the rate-limit mark of its
\* identity is present (the mark was written less than 60 seconds before)
\* returns the rate-limit error in that step, for any purpose, and changes
\* nothing: no worker goes on to store a code or to send, and the store with
\* the mark's time to live is as before.
C1_SequentialThrottle ==
    [][\A i \in Ids :
          (Present(RateMark(i)) /\ SendStarts(i)) =>
              /\ returned'.op = "send"
              /\ returned'.err = ErrRateLimited
              /\ pc' = pc
              /\ redis' = redis]_vars

\* C1 witness: a call for one purpose was rate limited by the mark that a call
\* for the other purpose has written
C1_Witness ==
    /\ returned.op = "send"
    /\ returned.err = ErrRateLimited
    /\ Present(RateMark(ReturnedId))
    /\ ~Present(IssuedCode(returned.codeType, ReturnedId))
    /\ \E t \in CodeTypes : Present(IssuedCode(t, ReturnedId))

\* C2: in no minute do two SendVerifyCode calls for one identity get past the
\* rate limit and go on to store a code and send it.
C2_OnePassPerMinute == \A i \in Ids : passed[i] <= 1

\* the failures the store has recorded for identity i
Recorded(i) == IF Present(FailRecord(i)) THEN AtoiValue(FailRecord(i).val) ELSE 0

\* C3: of the failed Verify calls of an identity that follow one another, each
\* within 10 minutes of the one before and with no success between, the first
\* two return the invalid-code error, the third returns too-many-attempts and
\* sets the lock for 10 minutes, and every Verify call in the 10 minutes after
\* the third fails with too-many-attempts, whatever code it presents.
C3_LockoutAfterThree ==
    [][returned'.op = "verify" =>
          LET i == <<returned'.zone, returned'.phone>>
              n == tracker[i].n
          IN  IF n = 3
              THEN returned'.err \in TooManyAttempts
              ELSE returned'.err # NoError =>
                       IF n + 1 < 3
                       THEN returned'.err = ErrInvalidCode
                       ELSE /\ returned'.err \in TooManyAttempts
                            /\ redis'[lockKey(i[1], i[2])] = [val |-> <<"1">>, ttl |-> 10]]_vars

\* C3 witness: after three failures in a row the identity is locked, and a
\* Verify call presenting the stored code has returned too-many-attempts
C3_Witness ==
    /\ returned.op = "verify"
    /\ returned.err \in TooManyAttempts
    /\ tracker[ReturnedId].n = 3
    /\ Present(LockMark(ReturnedId))
    /\ Present(IssuedCode(returned.codeType, ReturnedId))
    /\ IssuedCode(returned.codeType, ReturnedId).val = returned.code

\* no Verify call for identity i is in progress
NoVerifyInProgress(i) ==
    \A p \in Procs : pc[p] \in {"verify_get_code", "verify_del_code", "verify_del_fail",
                               "verify_del_lock", "verify_get_fail", "verify_set_lock",
                               "verify_set_fail"}
                         => <<frame[p].zone, frame[p].phone>> # i

\* C4: when the failed Verify calls of an identity have returned, the store
\* has counted each of them: fewer than three are all in the failure count,
\* and with three the lock is set.
C4_FailuresCounted ==
    \A i \in Ids :
        NoVerifyInProgress(i) =>
            IF tracker[i].n >= 3 THEN Present(LockMark(i))
            ELSE Recorded(i) = tracker[i].n

\* the steps of Verify that evaluate or accept a code: the comparison, the
\* delete of the stored code, and the delete of the lock with the return of nil
Evaluates(p) ==
    /\ pc[p] \in {"verify_get_code", "verify_del_code", "verify_del_lock"}
    /\ pc'[p] # pc[p]

\* C5: no Verify call compares the presented code, deletes the stored code,
\* deletes the lock or returns nil at a moment when the lock of its identity
\* is present.
C5_LockTakesPrecedence ==
    [][\A p \in Procs :
          Evaluates(p) => ~Present(LockMark(<<frame[p].zone, frame[p].phone>>))]_vars

\* C6: a Verify call that presents the code stored for its identity and
\* purpose, while the identity is not locked, does not fail; a Verify call
\* that returns nil leaves no stored code; and the Verify call that follows it
\* for the same identity with the same purpose and code returns the
\* invalid-code error.
C6_OneTimeUse ==
    [][returned'.op = "verify" =>
          LET i == <<returned'.zone, returned'.phone>>
              t == returned'.codeType
          IN  /\ (returned'.err # NoError /\ ~Present(LockMark(i))) =>
                     ~(Present(IssuedCode(t, i)) /\ IssuedCode(t, i).val = returned'.code)
              /\ returned'.err = NoError => ~Present(redis'[cacheKey(t, i[1], i[2])])
              /\ (/\ returned'.code # EmptyString
                  /\ verified[i] = [codeType |-> t, code |-> returned'.code]) =>
                     returned'.err = ErrInvalidCode]_vars

\* C6 witness: a Verify call has returned the invalid-code error for the
\* purpose and code with which the call before it had returned nil
C6_Witness ==
    /\ returned.op = "verify"
    /\ returned.err = ErrInvalidCode
    /\ returned.code # EmptyString
    /\ returned.after = [codeType |-> returned.codeType, code |-> returned.code]

\* C7: a stored code is found equal to the presented code by at most one
\* Verify call, so at most one call returns nil for it.
C7_AcceptedOnce == \A k \in CodeKeys : accepted[k] <= 1

\* C8: a Verify call that fails while its identity is not locked returns the
\* error, and leaves the store, that the recorded failure count alone decides,
\* whether the code of its purpose is absent or present with another value:
\* under the threshold the invalid-code error and the count raised by one for
\* 10 minutes, at the threshold too-many-attempts and the lock for 10 minutes.
C8_NoOracle ==
    [][(returned'.op = "verify" /\ returned'.err # NoError
            /\ ~Present(LockMark(<<returned'.zone, returned'.phone>>))) =>
          LET i == <<returned'.zone, returned'.phone>>
              n == Recorded(i) + 1
          IN  IF n >= 3
              THEN /\ returned'.err = ErrLockedNow
                   /\ redis' = [redis EXCEPT ![lockKey(i[1], i[2])] =
                                    [val |-> <<"1">>, ttl |-> 10]]
              ELSE /\ returned'.err = ErrInvalidCode
                   /\ redis' = [redis EXCEPT ![failCountKey(i[1], i[2])] =
                                    [val |-> Itoa(n), ttl |-> 10]]]_vars

\* C8 witness: a Verify call has returned the invalid-code error for a purpose
\* whose code is present with another value, with the same count recorded as
\* a call for the other purpose, whose code is absent, would have left
C8_Witness ==
    /\ returned.op = "verify"
    /\ returned.err = ErrInvalidCode
    /\ Present(IssuedCode(returned.codeType, ReturnedId))
    /\ IssuedCode(returned.codeType, ReturnedId).val # returned.code
    /\ \E t \in CodeTypes : ~Present(IssuedCode(t, ReturnedId))
    /\ Recorded(ReturnedId) = 2

\* C9: a call in which a Redis operation has failed returns the Redis error.
C9_StoreErrorsReturned == returned.storeFailed => returned.err = ErrStore

\* C10: a SendVerifyCode call that finds no rate-limit mark while the
\* configuration names no provider returns the no-provider error in that
\* step and writes nothing: the store is as before, no worker goes on to
\* store a code or to send, and the mark is still absent afterwards.
C10_NoProviderNoTrace ==
    [][\A i \in Ids :
          (/\ SendStarts(i)
           /\ ~Present(RateMark(i))
           /\ config.SMSProvider \notin {"aliyun", "unisms", "smsbao"}) =>
              /\ returned'.op = "send"
              /\ returned'.err = ErrNoProvider
              /\ pc' = pc
              /\ redis' = redis
              /\ ~Present(RateMark(i))']_vars

\* C10 witness: a call returned the no-provider error right after an earlier
\* call of the same identity did, and no mark is present
C10_Witness ==
    /\ returned.op = "send"
    /\ returned.err = ErrNoProvider
    /\ ~Present(RateMark(ReturnedId))
    /\ budget[ReturnedId] <= MaxSeqCalls - 2
    /\ \A k \in Keys : ~Present(redis[k])

\* C11: SendSMS is called only when the code of the call is stored with 5
\* minutes to live and the rate-limit mark with 1 minute, failed writes having
\* returned before; when the provider fails the call returns the delivery
\* error and the store is as it was, so both records are still there and a
\* SendVerifyCode call that follows at once, its Redis read not failing,
\* returns the rate-limit error.
C11_DeliveryFailureKeepsRecords ==
    [][/\ \A p \in Procs :
             (pc[p] = "send_sms" /\ pc'[p] = "idle") =>
                 /\ IssuedCode(frame[p].codeType, <<frame[p].zone, frame[p].phone>>)
                        = [val |-> frame[p].verifyCode, ttl |-> 5]
                 /\ RateMark(<<frame[p].zone, frame[p].phone>>)
                        = [val |-> <<"1">>, ttl |-> 1]
                 /\ returned'.op = "send"
                 /\ returned'.err \in {NoError, ErrDelivery}
                 /\ returned'.err = ErrDelivery => redis' = redis
       /\ (returned.op = "send" /\ returned.err = ErrDelivery
               /\ SendStarts(ReturnedId) /\ ~returned'.storeFailed) =>
              /\ returned'.err = ErrRateLimited
              /\ redis' = redis]_vars

\* C11 witness: a call has returned the delivery error, and its code and the
\* rate-limit mark are in the store with their whole time to live
C11_Witness ==
    /\ returned.op = "send"
    /\ returned.err = ErrDelivery
    /\ ~returned.storeFailed
    /\ RateMark(ReturnedId) = [val |-> <<"1">>, ttl |-> 1]
    /\ Present(IssuedCode(returned.codeType, ReturnedId))
    /\ IssuedCode(returned.codeType, ReturnedId).ttl = 5

\* C12 as the specification states it: when no Verify call for an identity
\* is in progress, its failure count and its lock are not both present.
C12_CountOrLock ==
    \A i \in Ids :
        NoVerifyInProgress(i) => ~(Present(FailRecord(i)) /\ Present(LockMark(i)))

\* C12, amended: with calls made one at a time, the failure count and the
\* lock of an identity can be present together; the count is then the 2 that
\* the call before the threshold stored, and it has no more time to live than
\* the lock, so it is gone when the lock is.
C12_CountExpiresWithLock ==
    \A i \in Ids :
        (Present(FailRecord(i)) /\ Present(LockMark(i))) =>
            /\ FailRecord(i).val = <<"2">>
            /\ FailRecord(i).ttl <= LockMark(i).ttl

\* C12 witness: no call is in progress, the lock is present and the count is
\* present with less time to live than the lock
C12_Witness ==
    /\ AllIdle
    /\ returned.op = "verify"
    /\ returned.err = ErrLockedNow
    /\ Present(LockMark(ReturnedId))
    /\ Present(FailRecord(ReturnedId))
    /\ FailRecord(ReturnedId).ttl < LockMark(ReturnedId).ttl

\* the code key of the call that worker p is running
OwnCodeKey(p) == cacheKey(frame[p].codeType, frame[p].zone, frame[p].phone)

\* C13: a step of a call changes the stored code of no purpose and identity
\* but its own, and only where SendVerifyCode stores the code or Verify
\* deletes it after a match; and Verify finds a match only when the code
\* stored for its own purpose is present and equal to the presented code,
\* whatever is stored for the other purposes.
C13_PurposeScoped ==
    [][/\ \A k \in CodeKeys :
             (redis'[k] # redis[k] /\ pc' # pc) =>
                 \E p \in Procs :
                     /\ pc[p] \in {"send_set_code", "verify_del_code"}
                     /\ pc'[p] # pc[p]
                     /\ k = OwnCodeKey(p)
       /\ \A p \in Procs :
             (pc[p] = "verify_get_code" /\ pc'[p] = "verify_del_code") =>
                 /\ Present(redis[OwnCodeKey(p)])
                 /\ redis[OwnCodeKey(p)].val = frame[p].code]_vars

\* C13 witness: a Verify call has returned the invalid-code error for a code
\* that is stored for another purpose of its identity, while its own purpose
\* has another code stored; both stored codes are still there
C13_Witness ==
    /\ returned.op = "verify"
    /\ returned.err = ErrInvalidCode
    /\ Present(IssuedCode(returned.codeType, ReturnedId))
    /\ IssuedCode(returned.codeType, ReturnedId).val # returned.code
    /\ \E t \in CodeTypes :
          /\ t # returned.codeType
          /\ Present(IssuedCode(t, ReturnedId))
          /\ IssuedCode(t, ReturnedId).val = returned.code

\* the keys of identity i
KeysOf(i) ==
    {rateLimitKey(i[1], i[2]), failCountKey(i[1], i[2]), lockKey(i[1], i[2])}
        \cup {cacheKey(t, i[1], i[2]) : t \in CodeTypes}

\* the identity of the call that worker p is running
CallId(p) == <<frame[p].zone, frame[p].phone>>

\* C14: for zones and phone numbers made of digits, a step of a call changes
\* no record but those of the call's own identity, and what the call does
\* next follows from the records of its own identity alone, whatever the
\* records of the other identities are: SendVerifyCode is refused exactly
\* when its rate-limit mark is present, Verify is refused exactly when its
\* lock is present, finds a match exactly when its stored code is the
\* presented one, and locks exactly when its recorded count is 2 or more.
C14_IdentitiesIndependent ==
    [][/\ \A k \in Keys :
             (redis'[k] # redis[k] /\ pc' # pc) =>
                 \E p \in Procs :
                     /\ pc[p] # "idle"
                     /\ pc'[p] # pc[p]
                     /\ k \in KeysOf(CallId(p))
       /\ \A i \in Ids :
             /\ SendStarts(i) =>
                    (returned'.err = ErrRateLimited <=> Present(RateMark(i)))
             /\ (budget'[i] = budget[i] - 1 /\ ~SendStarts(i)) =>
                    (returned'.err = ErrLocked <=> Present(LockMark(i)))
       /\ \A p \in Procs :
             /\ (pc[p] = "verify_get_code" /\ pc'[p] # pc[p]) =>
                    (pc'[p] = "verify_del_code"
                        <=> /\ Present(IssuedCode(frame[p].codeType, CallId(p)))
                            /\ IssuedCode(frame[p].codeType, CallId(p)).val = frame[p].code)
             /\ (pc[p] = "verify_get_fail" /\ pc'[p] # pc[p]) =>
                    (pc'[p] = "verify_set_lock" <=> Recorded(CallId(p)) >= 2)]_vars

\* C14 witness: a Verify call of one identity has returned the invalid-code
\* error with its first failure recorded and no lock, while another identity
\* has its rate-limit mark and a code stored
C14_Witness ==
    /\ returned.op = "verify"
    /\ returned.err = ErrInvalidCode
    /\ Recorded(ReturnedId) = 1
    /\ ~Present(LockMark(ReturnedId))
    /\ \E j \in Ids :
          /\ j # ReturnedId
          /\ Present(RateMark(j))
          /\ \E t \in CodeTypes : Present(IssuedCode(t, j))

\* C15: with calls made one at a time, when a Verify call returns nil the
\* code of its purpose, the failure count and the lock of its identity are
\* all absent; and when the call that follows it for the identity is a
\* Verify that fails, it returns the invalid-code error and leaves a failure
\* count of 1 with 10 minutes to live.
C15_SuccessResets ==
    [][returned'.op = "verify" =>
          LET i == <<returned'.zone, returned'.phone>> IN
          /\ returned'.err = NoError =>
                 /\ ~Present(redis'[cacheKey(returned'.codeType, i[1], i[2])])
                 /\ ~Present(redis'[failCountKey(i[1], i[2])])
                 /\ ~Present(redis'[lockKey(i[1], i[2])])
          /\ (verified[i] # NotVerified /\ returned'.err # NoError) =>
                 /\ returned'.err = ErrInvalidCode
                 /\ redis'[failCountKey(i[1], i[2])] = [val |-> <<"1">>, ttl |-> 10]]_vars

\* C15 witness: the call before was a Verify that returned nil, and this
\* Verify call has failed with the invalid-code error and a count of 1
C15_Witness ==
    /\ returned.op = "verify"
    /\ returned.err = ErrInvalidCode
    /\ returned.after # NotVerified
    /\ FailRecord(ReturnedId) = [val |-> <<"1">>, ttl |-> 10]
    /\ ~Present(LockMark(ReturnedId))
    /\ budget[ReturnedId] = 0

\* C16: a Verify call that starts while the lock of its identity is present
\* returns too-many-attempts in that step and changes nothing: no worker goes
\* on to read or delete a code, and the store, with the failure count, the
\* lock and their times to live, is as before.  With calls made one at a
\* time, a lock that is present is therefore never deleted nor set anew: a
\* step leaves it as it is or is the passing of a minute.
C16_LockedPathChangesNothing ==
    [][\A i \in Ids :
          /\ (Present(LockMark(i)) /\ VerifyStarts(i)) =>
                 /\ returned'.op = "verify"
                 /\ returned'.err = ErrLocked
                 /\ pc' = pc
                 /\ redis' = redis
          /\ Present(LockMark(i)) =>
                 \/ redis'[lockKey(i[1], i[2])] = LockMark(i)
                 \/ /\ redis'[lockKey(i[1], i[2])] = Expire(LockMark(i))
                    /\ pc' = pc /\ budget' = budget]_vars

\* C16 witness: the identity was locked by its third failure, two more Verify
\* calls have been refused, and the lock has run for part of its 10 minutes
C16_Witness ==
    /\ returned.op = "verify"
    /\ returned.err = ErrLocked
    /\ budget[ReturnedId] = 0
    /\ Present(LockMark(ReturnedId))
    /\ LockMark(ReturnedId).ttl < 10
    /\ Present(FailRecord(ReturnedId))

\* C17: with calls made one at a time, a Verify call that fails while its
\* identity is not locked and has fewer than 2 failures recorded returns the
\* invalid-code error and stores the recorded count plus 1 (1 when no count
\* is recorded) with a new 10 minutes to live, whatever time the count had
\* left; and the invalid-code error is returned by no other call.
C17_SlidingWindow ==
    [][returned'.op = "verify" =>
          LET i == <<returned'.zone, returned'.phone>>
              key == failCountKey(returned'.zone, returned'.phone)
          IN  /\ (/\ returned'.err # NoError
                  /\ ~Present(LockMark(i))
                  /\ Recorded(i) + 1 < 3) =>
                     /\ returned'.err = ErrInvalidCode
                     /\ redis'[key].ttl = 10
                     /\ AtoiValue(redis'[key].val) = Recorded(i) + 1
                     /\ ~Present(FailRecord(i)) => redis'[key].val = <<"1">>
              /\ returned'.err = ErrInvalidCode =>
                     (~Present(LockMark(i)) /\ Recorded(i) + 1 < 3)]_vars

\* C17 witness: the first call for an identity with nothing stored was a
\* Verify; it has returned the invalid-code error and left a count of 1 with
\* 10 minutes to live
C17_Witness ==
    /\ returned.op = "verify"
    /\ returned.err = ErrInvalidCode
    /\ budget[ReturnedId] = MaxSeqCalls - 1
    /\ FailRecord(ReturnedId) = [val |-> <<"1">>, ttl |-> 10]
    /\ \A k \in Keys \ {failCountKey(returned.zone, returned.phone)} : ~Present(redis[k])

\* C18: the step of Verify that sets the lock is taken with a count of 3 or
\* more, returns too-many-attempts and changes the lock key alone, set to
\* last 10 minutes: the stored failure count keeps its value and its time to
\* live.  And a stored failure count is 1 or 2 in every state.
C18_TriggerWritesOnlyLock ==
    [][/\ \A p \in Procs :
             (pc[p] = "verify_set_lock" /\ pc'[p] # pc[p]) =>
                 /\ frame[p].failCount >= 3
                 /\ returned'.op = "verify"
                 /\ returned'.err = ErrLockedNow
                 /\ redis' = [redis EXCEPT ![lockKey(frame[p].zone, frame[p].phone)] =
                                  [val |-> <<"1">>, ttl |-> 10]]
       /\ \A i \in Ids :
             Present(redis'[failCountKey(i[1], i[2])]) =>
                 redis'[failCountKey(i[1], i[2])].val \in {<<"1">>, <<"2">>}]_vars

\* C18 witness: the call that reached the threshold has returned, the lock
\* has its 10 minutes, and the count is still 2 with the time it had left
C18_Witness ==
    /\ returned.op = "verify"
    /\ returned.err = ErrLockedNow
    /\ LockMark(ReturnedId) = [val |-> <<"1">>, ttl |-> 10]
    /\ Present(FailRecord(ReturnedId))
    /\ FailRecord(ReturnedId).val = <<"2">>
    /\ FailRecord(ReturnedId).ttl < 10

\* this step is one of a SendVerifyCode call
SendSteps ==
    \/ \E i \in Ids : SendStarts(i)
    \/ \E p \in Procs : /\ pc[p] \in {"send_set_code", "send_set_rate", "send_sms"}
                        /\ pc'[p] # pc[p]

\* C19: no step of a SendVerifyCode call, whether the call goes on to return
\* nil, the rate-limit error, the no-provider error, the delivery error or a
\* Redis error, changes the failure count or the lock of any identity, in
\* value or in time to live.
C19_IssuingKeepsFailureState ==
    [][SendSteps =>
          \A i \in Ids :
              /\ redis'[failCountKey(i[1], i[2])] = FailRecord(i)
              /\ redis'[lockKey(i[1], i[2])] = LockMark(i)]_vars

\* C19 witness: a SendVerifyCode call has stored a code and returned nil for
\* an identity that is locked, and the lock and the count are still there
C19_Witness ==
    /\ returned.op = "send"
    /\ returned.err = NoError
    /\ Present(IssuedCode(returned.codeType, ReturnedId))
    /\ Present(LockMark(ReturnedId))
    /\ Present(FailRecord(ReturnedId))

\* C20: when a minute passes and takes the last of a lock's time to live, the
\* failure count of the identity is absent afterwards.
C20_CleanAfterLockout ==
    [][\A i \in Ids :
          (/\ Present(LockMark(i))
           /\ ~Present(redis'[lockKey(i[1], i[2])])
           /\ redis'[lockKey(i[1], i[2])] = Expire(LockMark(i))
           /\ pc' = pc /\ budget' = budget) =>
              ~Present(redis'[failCountKey(i[1], i[2])])]_vars

====
